---- MODULE Spec2Model ----
(***************************************************************************)
(* Model of src/python/main.py: a one-shot process that reads one JSON     *)
(* request on stdin, dispatches on its `type` field to one of four mode    *)
(* handlers (search, price_summary, intraday, batch), calls the upstream   *)
(* providers (polygon, yfinance, coingecko) and prints one JSON document.  *)
(*                                                                         *)
(* Text is a sequence of one-character strings, so that upper() and        *)
(* lower() are computed character by character.  A number is a record      *)
(* [k, n, d]: k is the Python kind ("int", "float", or "nan" for the float *)
(* NaN) and n/d the value as a reduced fraction.  A provider's answer is   *)
(* chosen nondeterministically when the call is made and is kept in the    *)
(* call log `calls`.                                                       *)
(***************************************************************************)
EXTENDS Integers, Sequences, FiniteSets, TLC

VARIABLES
    stdin,       \* the request document on standard input
    env,         \* the process environment
    pc,          \* position of the process in main / its handler
    locals,      \* local variables of the running handler
    calls,       \* provider calls made so far, each with its answer
    stdout,      \* documents printed to standard output
    stderr,      \* diagnostics printed to standard error
    exitStatus   \* process exit status, -1 while running

vars == <<stdin, env, pc, locals, calls, stdout, stderr, exitStatus>>

---------------------------------------------------------------------------
(* Bounds of the model *)

\* a batch request names at most this many instruments in all
MaxItems == 3
\* a 7-day history holds at most this many rows
MaxHist == 3
\* bar series have 0..MaxFew bars, or MaxCandles-1 .. MaxCandles+MaxExtra bars
MaxFew == 2
MaxExtra == 2

---------------------------------------------------------------------------
(* Text *)

LowerCase == <<"a", "b", "c", "d", "e", "f", "g", "h", "i", "j", "k", "l", "m",
               "n", "o", "p", "q", "r", "s", "t", "u", "v", "w", "x", "y", "z">>
UpperCase == <<"A", "B", "C", "D", "E", "F", "G", "H", "I", "J", "K", "L", "M",
               "N", "O", "P", "Q", "R", "S", "T", "U", "V", "W", "X", "Y", "Z">>

UpperChar(c) ==
    IF \E i \in 1..26 : LowerCase[i] = c
    THEN UpperCase[CHOOSE i \in 1..26 : LowerCase[i] = c]
    ELSE c

LowerChar(c) ==
    IF \E i \in 1..26 : UpperCase[i] = c
    THEN LowerCase[CHOOSE i \in 1..26 : UpperCase[i] = c]
    ELSE c

\* str.upper() and str.lower()
Upper(s) == [i \in 1..Len(s) |-> UpperChar(s[i])]
Lower(s) == [i \in 1..Len(s) |-> LowerChar(s[i])]

\* Python's None where a string is expected; printed by an f-string as None
NoneStr == <<"None">>

\* `s is not None`, which takes the empty string for a value
TruthyStrNotNone(s) == s # NoneStr

\* truth value of a str-or-None
TruthyStr(s) == s # NoneStr /\ s # <<>>

\* an f-string "<prefix>{value}"
FString(prefix, value) == <<prefix, value>>

\* dict.get(key, default) on a JSON object
Get(doc, key, default) == IF key \in DOMAIN doc THEN doc[key] ELSE default

\* JSON values: of the request, and as json.dumps writes them
JString(s) == [json |-> "string", s |-> s]
JInt(n) == [json |-> "int", n |-> n]
JArray(items) == [json |-> "array", items |-> items]
JObject(fields) == [json |-> "object", fields |-> fields]
JNull == [json |-> "null"]
JNumber == [json |-> "number"]

\* for x in value: raises TypeError unless the value is an array
Iterable(value) == value.json = "array"

\* the entries a loop over the value visits
Items(value) == IF Iterable(value) THEN value.items ELSE <<>>

AAPL == <<"A", "A", "P", "L">>
MSFT == <<"M", "S", "F", "T">>
Bitcoin == <<"b", "i", "t", "c", "o", "i", "n">>
Ethereum == <<"e", "t", "h", "e", "r", "e", "u", "m">>
Cardano == <<"c", "a", "r", "d", "a", "n", "o">>
Solana == <<"s", "o", "l", "a", "n", "a">>
Dogecoin == <<"d", "o", "g", "e", "c", "o", "i", "n">>
BTC_USD == <<"B", "T", "C", "-", "U", "S", "D">>
ETH_USD == <<"E", "T", "H", "-", "U", "S", "D">>
ADA_USD == <<"A", "D", "A", "-", "U", "S", "D">>
SOL_USD == <<"S", "O", "L", "-", "U", "S", "D">>
DashUSD == <<"-", "U", "S", "D">>

---------------------------------------------------------------------------
(* Numbers *)

RECURSIVE Gcd(_, _)
Gcd(a, b) == IF b = 0 THEN a ELSE Gcd(b, a % b)

Abs(x) == IF x < 0 THEN -x ELSE x

\* the number n/d of kind k, as a reduced fraction with a positive denominator
Num(k, n, d) ==
    LET g == Gcd(Abs(n), Abs(d))
        s == IF d < 0 THEN -1 ELSE 1
    IN  [k |-> k, n |-> s * (n \div g), d |-> s * (d \div g)]

Int_(n) == [k |-> "int", n |-> n, d |-> 1]
Float_(n) == [k |-> "float", n |-> n, d |-> 1]
NaN == [k |-> "nan", n |-> 0, d |-> 1]

\* float(x)
PyFloat(x) == IF x.k = "nan" THEN NaN ELSE [k |-> "float", n |-> x.n, d |-> x.d]

\* int(x) raises ValueError on NaN
IntRaises(x) == x.k = "nan"

\* int(x) truncates toward zero
PyInt(x) ==
    [k |-> "int",
     n |-> IF x.n >= 0 THEN x.n \div x.d ELSE -((-x.n) \div x.d),
     d |-> 1]

JoinKind(a, b) == IF a.k = "int" /\ b.k = "int" THEN "int" ELSE "float"

\* a - b
PySub(a, b) ==
    IF a.k = "nan" \/ b.k = "nan" THEN NaN
    ELSE Num(JoinKind(a, b), a.n * b.d - b.n * a.d, a.d * b.d)

\* a * b
PyMul(a, b) ==
    IF a.k = "nan" \/ b.k = "nan" THEN NaN
    ELSE Num(JoinKind(a, b), a.n * b.n, a.d * b.d)

\* a / b, for b # 0
PyDiv(a, b) ==
    IF a.k = "nan" \/ b.k = "nan" THEN NaN
    ELSE Num("float", a.n * b.d, a.d * b.n)

\* a > 0 (False for NaN)
PyPositive(a) == a.k # "nan" /\ a.n > 0

\* a <= b as numbers
NumLeq(a, b) == a.n * b.d <= b.n * a.d

\* a = b as numbers, whatever their kinds
NumEq(a, b) == a.k # "nan" /\ b.k # "nan" /\ a.n * b.d = b.n * a.d

---------------------------------------------------------------------------
(* Sequences *)

\* seq[-k:]
LastN(seq, k) ==
    IF Len(seq) <= k THEN seq ELSE SubSeq(seq, Len(seq) - k + 1, Len(seq))

\* all sequences over S of length at most n
SeqsUpTo(S, n) == UNION {[1..m -> S] : m \in 0..n}

---------------------------------------------------------------------------
(* Upstream providers: the answers a call can get *)

\* data["results"][-100:] keeps this many bars
MaxCandles == 100

\* lengths of the bar series a provider returns
BarCounts == (0..MaxFew) \cup ((MaxCandles - 1)..(MaxCandles + MaxExtra))

\* for a series of n bars: no malformed bar (0), or the first or the last one
BadPositions(n) == {0} \cup ({1, n} \cap (1..n))

\* the i-th bar of a polygon aggregate response (sort=asc): t in epoch
\* milliseconds, JSON numbers of either kind
PolygonBar(i) ==
    [t |-> Int_(60000 * ((i + 1) \div 2)),
     o |-> IF i % 2 = 0 THEN Int_(10 + i) ELSE Num("float", 21 + 2 * i, 2),
     h |-> Float_(12 + i),
     l |-> Float_(9 + i),
     c |-> Num("float", 21 + 2 * i, 2),
     v |-> IF i % 2 = 0 THEN Float_(1000 + i) ELSE Int_(1000 + i)]

\* a bar without its "t" field
PolygonBadBar(i) ==
    [o |-> Float_(10 + i), h |-> Float_(12 + i), l |-> Float_(9 + i),
     c |-> Float_(11 + i), v |-> Int_(1000 + i)]

PolygonBars(n, bad) ==
    [i \in 1..n |-> IF i = bad THEN PolygonBadBar(i) ELSE PolygonBar(i)]

\* what requests.get(...), raise_for_status() and response.json() can give
PolygonResponses ==
    {[tag |-> "network_error"], [tag |-> "http_error"],
     [tag |-> "json", data |-> [status |-> "OK"]]}
    \cup UNION {{[tag |-> "json",
                  data |-> [status |-> s, results |-> PolygonBars(n, bad)]] :
                    s \in {"OK", "DELAYED"}, bad \in BadPositions(n)} :
                n \in BarCounts}

\* the i-th row of a yfinance history frame (ascending index): the index as
\* seconds since the epoch, float columns
YfRow(i) ==
    [index |-> Num("float", 120 * ((i + 1) \div 2) + 1, 2),
     Open |-> Num("float", 21 + 2 * i, 2),
     High |-> Float_(12 + i),
     Low |-> Float_(9 + i),
     Close |-> Num("float", 21 + 2 * i, 2),
     Volume |-> IF i % 2 = 0 THEN Num("float", 2001 + 2 * i, 2) ELSE Int_(1000 + i)]

\* a row whose Volume is NaN
YfBadRow(i) == [YfRow(i) EXCEPT !.Volume = NaN]

YfRows(n, bad) == [i \in 1..n |-> IF i = bad THEN YfBadRow(i) ELSE YfRow(i)]

\* what yf.Ticker(symbol).history(...) can give in the intraday handler
YfBarResponses ==
    {[tag |-> "fault"]}
    \cup UNION {{[tag |-> "frame", rows |-> YfRows(n, bad)] : bad \in BadPositions(n)} :
                n \in BarCounts}

---------------------------------------------------------------------------
(* fetch_intraday_data *)

PolygonFields == {"t", "o", "h", "l", "c", "v"}

\* result["t"] ... result["v"] raise KeyError on a bar that lacks a field
BarRaises(result) == ~(PolygonFields \subseteq DOMAIN result)

\* the candle appended for one polygon bar: the fields as the provider gave them
PolygonCandle(result) ==
    [ts |-> result.t, open |-> result.o, high |-> result.h, low |-> result.l,
     close |-> result.c, volume |-> result.v]

\* data["results"][:100], the first bars instead of the last
PolygonWindowFirst(results) ==
    IF Len(results) <= MaxCandles THEN results ELSE SubSeq(results, 1, MaxCandles)

\* the bars the loop visits: data["results"][-100:]
PolygonWindow(results) == LastN(results, MaxCandles)

\* data.get("results"): None when the key is absent, as falsy as []
DataResults(data) == Get(data, "results", <<>>)

\* data.get("status") == "OK" and data.get("results")
PolygonUsable(data) ==
    Get(data, "status", "") = "OK" /\ Len(DataResults(data)) > 0

\* the block without its inner try/except: an exception of the primary stage
\* reaches the outer except, which returns None
TryPolygonUnguarded(symbol, interval, resp) ==
    IF resp.tag # "json"
    THEN [tag |-> "return", value |-> [tag |-> "None"]]
    ELSE IF ~PolygonUsable(resp.data)
    THEN [tag |-> "fallthrough", raised |-> FALSE]
    ELSE LET window == PolygonWindow(DataResults(resp.data))
         IN  IF \E i \in 1..Len(window) : BarRaises(window[i])
             THEN [tag |-> "return", value |-> [tag |-> "None"]]
             ELSE [tag |-> "return",
                   value |-> [tag |-> "dict",
                              symbol |-> symbol,
                              interval |-> interval,
                              candles |-> [i \in 1..Len(window) |->
                                              PolygonCandle(window[i])],
                              source |-> "polygon"]]

\* The `if polygon_key:` block: "return" with the result, or "fallthrough" to the
\* yfinance fallback, with `raised` when the inner except printed a diagnostic.
TryPolygon(symbol, interval, resp) ==
    IF resp.tag # "json"
    THEN [tag |-> "fallthrough", raised |-> TRUE]
    ELSE IF ~PolygonUsable(resp.data)
    THEN [tag |-> "fallthrough", raised |-> FALSE]
    ELSE LET window == PolygonWindow(DataResults(resp.data))
         IN  IF \E i \in 1..Len(window) : BarRaises(window[i])
             THEN [tag |-> "fallthrough", raised |-> TRUE]
             ELSE [tag |-> "return",
                   value |-> [tag |-> "dict",
                              symbol |-> symbol,
                              interval |-> interval,
                              candles |-> [i \in 1..Len(window) |->
                                              PolygonCandle(window[i])],
                              source |-> "polygon"]]

\* int(index.timestamp() * 1000)
TsMillis(index) == PyInt(PyMul(index, Int_(1000)))

\* int(row["Volume"]) raises ValueError on NaN
RowRaises(row) == IntRaises(row.Volume)

\* the candle appended for one yfinance row
YfCandle(row) ==
    [ts |-> TsMillis(row.index),
     open |-> PyFloat(row.Open), high |-> PyFloat(row.High),
     low |-> PyFloat(row.Low), close |-> PyFloat(row.Close),
     volume |-> PyInt(row.Volume)]

\* the result tagged with the other provider's name
FallbackResultTaggedPolygon(symbol, interval, rows) ==
    IF \E i \in 1..Len(rows) : RowRaises(rows[i])
    THEN [tag |-> "None"]
    ELSE [tag |-> "dict",
          symbol |-> symbol,
          interval |-> interval,
          candles |-> [i \in 1..Len(rows) |-> YfCandle(rows[i])],
          source |-> "polygon"]

\* the fallback result cut to the last 100 rows, as the primary path is
FallbackResultLast100(symbol, interval, rows) ==
    IF \E i \in 1..Len(rows) : RowRaises(rows[i])
    THEN [tag |-> "None"]
    ELSE [tag |-> "dict",
          symbol |-> symbol,
          interval |-> interval,
          candles |-> [i \in 1..Len(LastN(rows, MaxCandles)) |->
                          YfCandle(LastN(rows, MaxCandles)[i])],
          source |-> "yfinance"]

\* Lines 203-219 on the frame `hist`: the result, or None when a row raises
\* and the outer except returns None.
FallbackResult(symbol, interval, rows) ==
    IF \E i \in 1..Len(rows) : RowRaises(rows[i])
    THEN [tag |-> "None"]
    ELSE [tag |-> "dict",
          symbol |-> symbol,
          interval |-> interval,
          candles |-> [i \in 1..Len(rows) |-> YfCandle(rows[i])],
          source |-> "yfinance"]

\* truth value of a handler's result: None is falsy, a dict with keys truthy
Truthy(result) == result.tag # "None"

\* what json.dumps writes for a result dict: an object of its keys and values
Document(result) == JObject([key \in DOMAIN result \ {"tag"} |-> result[key]])

\* the error object {"error": message}
ErrorDocument(message) == JObject([error |-> message])

\* main, lines 261-266: print the result or the error object, then return
IntradayOutput(symbol, result) ==
    IF Truthy(result)
    THEN Document(result)
    ELSE ErrorDocument(FString("Failed to fetch intraday data for ", symbol))

---------------------------------------------------------------------------
(* fetch_equity_price and fetch_crypto_price *)

\* closes a provider can report, zero and negative prices included
PriceVals == {Float_(-2), Float_(0), Float_(1), Float_(3)}

\* what yf.Ticker(symbol).history(period="1d") can give the equity adapter:
\* a fault, an empty frame, or a frame whose last row has a close and a day
EquityResponses ==
    {[tag |-> "fault"], [tag |-> "frame", rows |-> <<>>],
     [tag |-> "frame", rows |-> <<[Close |-> Num("float", 3, 2), day |-> "2024-01-02"]>>]}

\* the PricePoint with the symbol normalised to upper case
FetchEquityPriceUpper(symbol, resp) ==
    IF resp.tag # "frame" \/ Len(resp.rows) = 0
    THEN [tag |-> "None"]
    ELSE [tag |-> "dict",
          symbol |-> Upper(symbol),
          assetType |-> "equity",
          close |-> PyFloat(resp.rows[Len(resp.rows)].Close),
          date |-> resp.rows[Len(resp.rows)].day,
          source |-> "yfinance"]

\* fetch_equity_price: the PricePoint, or None on any exception
FetchEquityPrice(symbol, resp) ==
    IF resp.tag # "frame" \/ Len(resp.rows) = 0
    THEN [tag |-> "None"]
    ELSE [tag |-> "dict",
          symbol |-> symbol,
          assetType |-> "equity",
          close |-> PyFloat(resp.rows[Len(resp.rows)].Close),
          date |-> resp.rows[Len(resp.rows)].day,
          source |-> "yfinance"]

\* what the coingecko simple/price request can give for an identifier: a
\* network or HTTP error, {} , {id: {"eur": ..}} or {id: {"usd": price}}
CryptoResponses(coingecko_id) ==
    {[tag |-> "network_error"],
     [tag |-> "json", data |-> <<>>],
     [tag |-> "json", data |-> [x \in {coingecko_id} |-> [eur |-> Int_(7)]]],
     [tag |-> "json", data |-> [x \in {coingecko_id} |-> [usd |-> Int_(7)]]]}

\* crypto_symbol_map, a dict in insertion order: <<key, value>> pairs
CryptoSymbolMap ==
    << <<BTC_USD, Bitcoin>>, <<ETH_USD, Ethereum>>,
       <<ADA_USD, Cardano>>, <<SOL_USD, Solana>> >>

\* {v: k for k, v in m.items()}
ReverseMap(m) == [i \in 1..Len(m) |-> <<m[i][2], m[i][1]>>]

\* reverse_crypto_map, the map main passes to fetch_crypto_price
ReverseCryptoMap == ReverseMap(CryptoSymbolMap)

\* the loop of lines 51-55: the first key k whose value v equals the
\* identifier, None when there is none
MapBack(symbol_map, coingecko_id) ==
    LET hits == {i \in 1..Len(symbol_map) : symbol_map[i][2] = coingecko_id}
    IN  IF hits = {} THEN NoneStr
        ELSE symbol_map[CHOOSE i \in hits : \A j \in hits : i <= j][1]

\* lines 50-58: the mapped symbol, or "<ID>-USD"
CryptoSymbol(symbol_map, coingecko_id) ==
    LET symbol == MapBack(symbol_map, coingecko_id)
    IN  IF TruthyStr(symbol) THEN symbol ELSE Upper(coingecko_id) \o DashUSD

\* datetime.now().strftime('%Y-%m-%d')
Today == "2024-01-02"

\* fetch_crypto_price: the PricePoint, or None on any exception
FetchCryptoPrice(coingecko_id, symbol_map, resp) ==
    IF resp.tag # "json"
    THEN [tag |-> "None"]
    ELSE IF coingecko_id \notin DOMAIN resp.data
    THEN [tag |-> "None"]
    ELSE IF "usd" \notin DOMAIN resp.data[coingecko_id]
    THEN [tag |-> "None"]
    ELSE [tag |-> "dict",
          symbol |-> CryptoSymbol(symbol_map, coingecko_id),
          assetType |-> "crypto",
          close |-> PyFloat(resp.data[coingecko_id].usd),
          date |-> Today,
          source |-> "coingecko"]

---------------------------------------------------------------------------
(* fetch_price_summary *)

\* a history frame of daily rows with the given closes
DailyRows(closes) ==
    [i \in 1..Len(closes) |-> [index |-> Float_(86400 * i), Close |-> closes[i]]]

\* what history(period="1d") can give the summary handler
Hist1dResponses ==
    {[tag |-> "fault"]}
    \cup {[tag |-> "frame", rows |-> DailyRows(closes)] : closes \in SeqsUpTo(PriceVals, 1)}

\* what history(period="7d") can give
Hist7dResponses ==
    {[tag |-> "fault"]}
    \cup {[tag |-> "frame", rows |-> DailyRows(closes)] :
            closes \in SeqsUpTo(PriceVals, MaxHist)}

\* what ticker.info can give: a fault, None, or a dict with or without the
\* display name and the market capitalisation
InfoResponses ==
    {[tag |-> "fault"], [tag |-> "none"],
     [tag |-> "info", info |-> [longName |-> <<"M", "S">>, marketCap |-> Int_(5)]],
     [tag |-> "info", info |-> [shortName |-> <<"M">>]]}

\* datetime.now().isoformat()
NowIso == "2024-01-02T09:30:00"

\* the change as a ratio, without the factor 100
Change24hRatio(current_price, rows) ==
    IF Len(rows) >= 2
    THEN LET prev_close == PyFloat(rows[Len(rows) - 1].Close)
             change_24h == PySub(current_price, prev_close)
         IN  <<change_24h,
               IF PyPositive(prev_close)
               THEN PyDiv(change_24h, prev_close)
               ELSE Int_(0)>>
    ELSE <<Int_(0), Int_(0)>>

\* the change taken from the 7-day history alone: its last close minus its
\* second-to-last close
Change24hFromSeries(current_price, rows) ==
    IF Len(rows) >= 2
    THEN LET prev_close == PyFloat(rows[Len(rows) - 1].Close)
             change_24h == PySub(PyFloat(rows[Len(rows)].Close), prev_close)
         IN  <<change_24h,
               IF PyPositive(prev_close)
               THEN PyMul(PyDiv(change_24h, prev_close), Int_(100))
               ELSE Int_(0)>>
    ELSE <<Int_(0), Int_(0)>>

\* lines 118-124: <<change_24h, change_percent_24h>>
Change24h(current_price, rows) ==
    IF Len(rows) >= 2
    THEN LET prev_close == PyFloat(rows[Len(rows) - 1].Close)
             change_24h == PySub(current_price, prev_close)
         IN  <<change_24h,
               IF PyPositive(prev_close)
               THEN PyMul(PyDiv(change_24h, prev_close), Int_(100))
               ELSE Int_(0)>>
    ELSE <<Int_(0), Int_(0)>>

\* lines 126-132
MiniChart(rows) ==
    [i \in 1..Len(rows) |->
        [ts |-> TsMillis(rows[i].index), close |-> PyFloat(rows[i].Close)]]

\* lines 134-147, given `ticker.info or {}`
PriceSummary(symbol, current_price, rows, info) ==
    LET change == Change24h(current_price, rows)
    IN  [tag |-> "dict",
         symbol |-> symbol,
         name |-> Get(info, "longName", symbol),
         price |-> current_price,
         change24h |-> change[1],
         changePercent24h |-> change[2],
         marketCap |-> Get(info, "marketCap", [k |-> "null"]),
         miniChart |-> MiniChart(rows),
         asOf |-> NowIso,
         source |-> "yfinance"]

\* main, lines 248-253
SummaryOutput(symbol, result) ==
    IF Truthy(result)
    THEN Document(result)
    ELSE ErrorDocument(FString("Failed to fetch price summary for ", symbol))

---------------------------------------------------------------------------
(* search_equity_symbols *)

\* mock_securities
MockSecurities ==
    <<
     [symbol |-> <<"A", "A", "P", "L">>,
      name |-> <<"A", "p", "p", "l", "e", " ", "I", "n", "c", ".">>,
      exchange |-> "NASDAQ", type |-> "equity"],
     [symbol |-> <<"M", "S", "F", "T">>,
      name |-> <<"M", "i", "c", "r", "o", "s", "o", "f", "t", " ", "C",
                 "o", "r", "p", "o", "r", "a", "t", "i", "o", "n">>,
      exchange |-> "NASDAQ", type |-> "equity"],
     [symbol |-> <<"G", "O", "O", "G", "L">>,
      name |-> <<"A", "l", "p", "h", "a", "b", "e", "t", " ", "I", "n",
                 "c", ".">>,
      exchange |-> "NASDAQ", type |-> "equity"],
     [symbol |-> <<"A", "M", "Z", "N">>,
      name |-> <<"A", "m", "a", "z", "o", "n", ".", "c", "o", "m", " ",
                 "I", "n", "c", ".">>,
      exchange |-> "NASDAQ", type |-> "equity"],
     [symbol |-> <<"T", "S", "L", "A">>,
      name |-> <<"T", "e", "s", "l", "a", " ", "I", "n", "c", ".">>,
      exchange |-> "NASDAQ", type |-> "equity"],
     [symbol |-> <<"S", "P", "Y">>,
      name |-> <<"S", "P", "D", "R", " ", "S", "&", "P", " ", "5", "0",
                 "0", " ", "E", "T", "F", " ", "T", "r", "u", "s", "t">>,
      exchange |-> "NYSE", type |-> "etf"],
     [symbol |-> <<"Q", "Q", "Q">>,
      name |-> <<"I", "n", "v", "e", "s", "c", "o", " ", "Q", "Q", "Q",
                 " ", "T", "r", "u", "s", "t">>,
      exchange |-> "NASDAQ", type |-> "etf"],
     [symbol |-> <<"V", "T", "I">>,
      name |-> <<"V", "a", "n", "g", "u", "a", "r", "d", " ", "T", "o",
                 "t", "a", "l", " ", "S", "t", "o", "c", "k", " ", "M", "a",
                 "r", "k", "e", "t", " ", "E", "T", "F">>,
      exchange |-> "NYSE", type |-> "etf"],
     [symbol |-> <<"I", "V", "V">>,
      name |-> <<"i", "S", "h", "a", "r", "e", "s", " ", "C", "o", "r",
                 "e", " ", "S", "&", "P", " ", "5", "0", "0", " ", "E", "T",
                 "F">>,
      exchange |-> "NYSE", type |-> "etf"],
     [symbol |-> <<"V", "O", "O">>,
      name |-> <<"V", "a", "n", "g", "u", "a", "r", "d", " ", "S", "&",
                 "P", " ", "5", "0", "0", " ", "E", "T", "F">>,
      exchange |-> "NYSE", type |-> "etf"]
    >>

\* `q in s` for two strings
Contains(s, q) ==
    \E i \in 0..(Len(s) - Len(q)) : SubSeq(s, i + 1, i + Len(q)) = q

\* the filter matching the query against the symbol only
MatchesSymbolOnly(query_lower) ==
    SelectSeq([i \in 1..Len(MockSecurities) |-> i],
              LAMBDA i : Contains(Lower(MockSecurities[i].symbol), query_lower))

\* the list comprehension of lines 91-94: the indices kept, in catalog order
Matches(query_lower) ==
    SelectSeq([i \in 1..Len(MockSecurities) |-> i],
              LAMBDA i : \/ Contains(Lower(MockSecurities[i].symbol), query_lower)
                         \/ Contains(Lower(MockSecurities[i].name), query_lower))

\* seq[:limit] for an int limit: a negative limit counts from the end
SliceTo(seq, limit) ==
    LET stop == IF limit >= 0 THEN limit ELSE Len(seq) + limit
    IN  IF stop <= 0 THEN <<>>
        ELSE IF stop >= Len(seq) THEN seq
        ELSE SubSeq(seq, 1, stop)

\* search_equity_symbols: a query that is no string, or a limit that is
\* neither an int nor None, raises inside the try and gives []
SearchEquitySymbols(query, limit) ==
    IF query.json # "string" \/ limit.json \notin {"int", "null"}
    THEN <<>>
    ELSE LET filtered == [j \in 1..Len(Matches(Lower(query.s))) |->
                             MockSecurities[Matches(Lower(query.s))[j]]]
         IN  IF limit.json = "null" THEN filtered ELSE SliceTo(filtered, limit.n)

---------------------------------------------------------------------------
(* Requests and environments *)

\* a JSON object with one more field
With(doc, key, value) == (key :> value) @@ doc

\* the object {"type": t}, or {} for the request without a `type`
NoType == "(absent)"
Typed(t) == IF t = NoType THEN [parse |-> "object"] ELSE [parse |-> "object", type |-> t]

\* doc with the field set to each of the values, or left out
Optional(docs, key, values) ==
    docs \cup {With(doc, key, value) : doc \in docs, value \in values}

SearchRequests ==
    Optional(Optional({Typed("search")}, "query",
                      {JString(AAPL), JString(Lower(AAPL)), JString(<<"E", "T", "F">>),
                       JString(<<"S", "&", "P">>), JString(<<>>), JNumber}),
             "limit", {JInt(-1), JInt(0), JInt(1), JInt(10), JNull, JString(<<"1">>)})

SummaryRequests == Optional({Typed("price_summary")}, "symbol", {<<>>, MSFT})

IntradayRequests ==
    Optional(Optional({Typed("intraday")}, "symbol", {MSFT}), "interval", {"5m"})

\* tickers as the caller may write them, in either case
EquityLists == SeqsUpTo({AAPL, Lower(MSFT)}, MaxItems)

\* lists over a mapped and an unmapped identifier, and each identifier alone
\* (the four mapped ones, an unmapped one, and a ticker given as identifier)
CryptoLists ==
    SeqsUpTo({Bitcoin, Dogecoin}, MaxItems)
    \cup {<<id>> : id \in {Bitcoin, Ethereum, Cardano, Solana, Dogecoin, BTC_USD}}

\* batch requests: no `type` or one main does not know; `equities` and
\* `cryptos` absent, null or arrays
BatchRequests ==
    {doc \in Optional(Optional({Typed(NoType), Typed("quote")}, "equities",
                               {JNull} \cup {JArray(l) : l \in EquityLists}),
                      "cryptos", {JNull} \cup {JArray(l) : l \in CryptoLists}) :
        Len(Items(Get(doc, "equities", JArray(<<>>))))
          + Len(Items(Get(doc, "cryptos", JArray(<<>>)))) <= MaxItems}

\* what stdin can hold: text that is no JSON, a JSON value that is no object,
\* or a request object
Requests ==
    {[parse |-> "invalid"], [parse |-> "value"]}
    \cup SearchRequests \cup SummaryRequests \cup IntradayRequests \cup BatchRequests

\* the environment: POLYGON_API_KEY unset, set to the empty string, or set
Environments ==
    {[HOME |-> <<"/">>],
     [HOME |-> <<"/">>, POLYGON_API_KEY |-> <<>>],
     [HOME |-> <<"/">>, POLYGON_API_KEY |-> <<"k">>]}

\* os.getenv(name)
Getenv(name) == Get(env, name, NoneStr)

---------------------------------------------------------------------------
(* The process *)

Init ==
    /\ stdin \in Requests
    /\ env \in Environments
    /\ pc = "main"
    /\ locals = <<>>
    /\ calls = <<>>
    /\ stdout = <<>>
    /\ stderr = <<>>
    /\ exitStatus = -1

\* the discriminator read from a field the request does not have
RequestTypeFromMode == Get(stdin, "mode", NoType)

\* request_type = input_data.get("type")
RequestType == Get(stdin, "type", NoType)

\* print(json.dumps(doc)); return -- the process then ends with status 0
PrintAndReturn(doc, diags) ==
    /\ stdout' = Append(stdout, doc)
    /\ stderr' = stderr \o diags
    /\ pc' = "exit"
    /\ exitStatus' = 0

\* main's except without its sys.exit(1): the process ends with status 0
ExitOnExceptionStatus0(diags) ==
    /\ stderr' = stderr \o diags \o <<FString("Error in main: ", <<>>)>>
    /\ pc' = "exit"
    /\ exitStatus' = 0
    /\ UNCHANGED stdout

\* an exception reaches main's except: diagnostic, sys.exit(1)
ExitOnException(diags) ==
    /\ stderr' = stderr \o diags \o <<FString("Error in main: ", <<>>)>>
    /\ pc' = "exit"
    /\ exitStatus' = 1
    /\ UNCHANGED stdout

\* the handler goes on to its next provider call
Goto(label, diags) ==
    /\ pc' = label
    /\ stderr' = stderr \o diags
    /\ UNCHANGED <<stdout, exitStatus>>

\* Lines 226-230: json.loads raises on text that is no JSON, and
\* input_data.get raises on a JSON value that is no object.
MainParseFails ==
    /\ pc = "main"
    /\ stdin.parse # "object"
    /\ ExitOnException(<<>>)
    /\ UNCHANGED <<stdin, env, locals, calls>>

\* Lines 233-239: the search handler.
MainSearch ==
    /\ pc = "main"
    /\ stdin.parse = "object"
    /\ RequestType = "search"
    /\ LET query == Get(stdin, "query", JString(<<>>))
           limit == Get(stdin, "limit", JInt(10))
           raises == query.json # "string" \/ limit.json \notin {"int", "null"}
       IN  PrintAndReturn(JArray(SearchEquitySymbols(query, limit)),
                          IF raises THEN <<FString("Error searching symbols for ", <<>>)>>
                          ELSE <<>>)
    /\ UNCHANGED <<stdin, env, locals, calls>>

\* Lines 242-246: a price-summary request; without a symbol the error object
\* is printed at once.
MainPriceSummary ==
    /\ pc = "main"
    /\ stdin.parse = "object"
    /\ RequestType = "price_summary"
    /\ LET symbol == Get(stdin, "symbol", NoneStr)
       IN  IF ~TruthyStr(symbol)
           THEN /\ PrintAndReturn(
                       ErrorDocument(FString("Symbol required for price summary", <<>>)),
                       <<>>)
                /\ UNCHANGED locals
           ELSE /\ locals' = [symbol |-> symbol]
                /\ Goto("summary_1d", <<>>)
    /\ UNCHANGED <<stdin, env, calls>>

\* Lines 104-111: ticker.history(period="1d").
SummaryHist1d ==
    /\ pc = "summary_1d"
    /\ \E resp \in Hist1dResponses :
          /\ calls' = Append(calls, [api |-> "yfinance.history", symbol |-> locals.symbol,
                                     period |-> "1d", interval |-> "1d", resp |-> resp])
          /\ IF resp.tag # "frame" \/ Len(resp.rows) = 0
             THEN /\ PrintAndReturn(
                         SummaryOutput(locals.symbol, [tag |-> "None"]),
                         <<FString("Error fetching price summary for ", locals.symbol)>>)
                  /\ UNCHANGED locals
             ELSE /\ locals' = With(locals, "current_price",
                                    PyFloat(resp.rows[Len(resp.rows)].Close))
                  /\ Goto("summary_7d", <<>>)
    /\ UNCHANGED <<stdin, env>>

\* the 7-day request without the `if hist_7d.empty` check of lines 115-116
SummaryHist7dUnchecked ==
    /\ pc = "summary_7d"
    /\ \E resp \in Hist7dResponses :
          /\ calls' = Append(calls, [api |-> "yfinance.history", symbol |-> locals.symbol,
                                     period |-> "7d", interval |-> "1d", resp |-> resp])
          /\ IF resp.tag # "frame"
             THEN /\ PrintAndReturn(
                         SummaryOutput(locals.symbol, [tag |-> "None"]),
                         <<FString("Error fetching price summary for ", locals.symbol)>>)
                  /\ UNCHANGED locals
             ELSE /\ locals' = With(locals, "hist_7d", resp.rows)
                  /\ Goto("summary_info", <<>>)
    /\ UNCHANGED <<stdin, env>>

\* Lines 113-132: ticker.history(period="7d").
SummaryHist7d ==
    /\ pc = "summary_7d"
    /\ \E resp \in Hist7dResponses :
          /\ calls' = Append(calls, [api |-> "yfinance.history", symbol |-> locals.symbol,
                                     period |-> "7d", interval |-> "1d", resp |-> resp])
          /\ IF resp.tag # "frame" \/ Len(resp.rows) = 0
             THEN /\ PrintAndReturn(
                         SummaryOutput(locals.symbol, [tag |-> "None"]),
                         <<FString("Error fetching price summary for ", locals.symbol)>>)
                  /\ UNCHANGED locals
             ELSE /\ locals' = With(locals, "hist_7d", resp.rows)
                  /\ Goto("summary_info", <<>>)
    /\ UNCHANGED <<stdin, env>>

\* Lines 134-150 and 249-253: ticker.info, then the summary is printed.
SummaryInfo ==
    /\ pc = "summary_info"
    /\ \E resp \in InfoResponses :
          /\ calls' = Append(calls, [api |-> "yfinance.info", symbol |-> locals.symbol,
                                     resp |-> resp])
          /\ IF resp.tag = "fault"
             THEN PrintAndReturn(
                      SummaryOutput(locals.symbol, [tag |-> "None"]),
                      <<FString("Error fetching price summary for ", locals.symbol)>>)
             ELSE PrintAndReturn(
                      SummaryOutput(locals.symbol,
                          PriceSummary(locals.symbol, locals.current_price, locals.hist_7d,
                                       IF resp.tag = "none" THEN <<>> ELSE resp.info)),
                      <<>>)
    /\ UNCHANGED <<stdin, env, locals>>

\* the stage entered without looking at the key
FirstStageAlwaysPrimary(polygon_key) == "intraday_polygon"

\* `if polygon_key:` -- the stage fetch_intraday_data starts with
FirstStage(polygon_key) ==
    IF TruthyStr(polygon_key) THEN "intraday_polygon" ELSE "intraday_1m"

\* Lines 256-261 and 155-157: an intraday request; the primary provider is
\* tried only with a non-empty POLYGON_API_KEY.
MainIntraday ==
    /\ pc = "main"
    /\ stdin.parse = "object"
    /\ RequestType = "intraday"
    /\ locals' = [symbol |-> Get(stdin, "symbol", NoneStr),
                  interval |-> Get(stdin, "interval", "1m")]
    /\ LET polygon_key == Getenv("POLYGON_API_KEY")
       IN  Goto(FirstStage(polygon_key), <<>>)
    /\ UNCHANGED <<stdin, env, calls>>

\* Lines 158-193: the polygon request.
IntradayPolygon ==
    /\ pc = "intraday_polygon"
    /\ \E resp \in PolygonResponses :
          LET outcome == TryPolygon(locals.symbol, locals.interval, resp)
          IN  /\ calls' = Append(calls, [api |-> "polygon.aggs", symbol |-> locals.symbol,
                                         resp |-> resp])
              /\ IF outcome.tag = "return"
                 THEN PrintAndReturn(IntradayOutput(locals.symbol, outcome.value), <<>>)
                 ELSE Goto("intraday_1m",
                           IF outcome.raised
                           THEN <<FString("Polygon.io failed for ", locals.symbol)>>
                           ELSE <<>>)
    /\ UNCHANGED <<stdin, env, locals>>

\* what fetch_intraday_data returns and prints once `hist` is final
IntradayFinish(resp) ==
    LET result == IF resp.tag = "frame"
                  THEN FallbackResult(locals.symbol, locals.interval, resp.rows)
                  ELSE [tag |-> "None"]
    IN  PrintAndReturn(IntradayOutput(locals.symbol, result),
                       IF Truthy(result) THEN <<>>
                       ELSE <<FString("Error fetching intraday data for ", locals.symbol)>>)

\* the one-minute request retried as a daily request also when it faults
IntradayMinuteRetryOnFault ==
    /\ pc = "intraday_1m"
    /\ \E resp \in YfBarResponses :
          /\ calls' = Append(calls, [api |-> "yfinance.history", symbol |-> locals.symbol,
                                     period |-> "1d", interval |-> "1m", resp |-> resp])
          /\ IF resp.tag # "frame" \/ Len(resp.rows) = 0
             THEN Goto("intraday_1d", <<>>)
             ELSE IntradayFinish(resp)
    /\ UNCHANGED <<stdin, env, locals>>

\* Lines 196-199: ticker.history(period="1d", interval="1m"); an empty frame
\* leads to the daily request.
IntradayMinute ==
    /\ pc = "intraday_1m"
    /\ \E resp \in YfBarResponses :
          /\ calls' = Append(calls, [api |-> "yfinance.history", symbol |-> locals.symbol,
                                     period |-> "1d", interval |-> "1m", resp |-> resp])
          /\ IF resp.tag = "frame" /\ Len(resp.rows) = 0
             THEN Goto("intraday_1d", <<>>)
             ELSE IntradayFinish(resp)
    /\ UNCHANGED <<stdin, env, locals>>

\* Line 201: ticker.history(period="1d"), then lines 203-223.
IntradayDaily ==
    /\ pc = "intraday_1d"
    /\ \E resp \in YfBarResponses :
          /\ calls' = Append(calls, [api |-> "yfinance.history", symbol |-> locals.symbol,
                                     period |-> "1d", interval |-> "1d", resp |-> resp])
          /\ IntradayFinish(resp)
    /\ UNCHANGED <<stdin, env, locals>>

\* The batch loops from the i-th crypto on (lines 292-298): fetch it next, or
\* print the results when the list is exhausted.
CryptoLoop(equities, cryptos, i, results, diags) ==
    IF i <= Len(Items(cryptos))
    THEN /\ locals' = [equities |-> equities, cryptos |-> cryptos, i |-> i,
                       results |-> results]
         /\ Goto("batch_cryptos", diags)
    ELSE /\ locals' = [equities |-> equities, cryptos |-> cryptos, i |-> i,
                       results |-> results]
         /\ PrintAndReturn(JArray([j \in 1..Len(results) |-> Document(results[j])]),
                           diags)

\* The batch loops from the i-th equity on (lines 286-292): fetch it next, or
\* start on the cryptos, which raises if `cryptos` cannot be iterated.
EquityLoop(equities, cryptos, i, results, diags) ==
    IF i <= Len(Items(equities))
    THEN /\ locals' = [equities |-> equities, cryptos |-> cryptos, i |-> i,
                       results |-> results]
         /\ Goto("batch_equities", diags)
    ELSE IF ~Iterable(cryptos)
    THEN /\ locals' = [equities |-> equities, cryptos |-> cryptos, i |-> i,
                       results |-> results]
         /\ ExitOnException(diags)
    ELSE CryptoLoop(equities, cryptos, 1, results, diags)

\* the batch handler for requests without a `type` only: a `type` main does not
\* know is answered with an error object
MainBatchRejectsUnknownType ==
    /\ pc = "main"
    /\ stdin.parse = "object"
    /\ RequestType \notin {"search", "price_summary", "intraday"}
    /\ LET equities == Get(stdin, "equities", JArray(<<>>))
           cryptos == Get(stdin, "cryptos", JArray(<<>>))
       IN  IF RequestType # NoType
           THEN /\ locals' = locals
                /\ PrintAndReturn(ErrorDocument(FString("Unknown request type", <<>>)), <<>>)
           ELSE IF ~Iterable(equities)
           THEN /\ locals' = [equities |-> equities, cryptos |-> cryptos, i |-> 1,
                              results |-> <<>>]
                /\ ExitOnException(<<>>)
           ELSE EquityLoop(equities, cryptos, 1, <<>>, <<>>)
    /\ UNCHANGED <<stdin, env, calls>>

\* Lines 268-286: any other request is a batch request.
MainBatch ==
    /\ pc = "main"
    /\ stdin.parse = "object"
    /\ RequestType \notin {"search", "price_summary", "intraday"}
    /\ LET equities == Get(stdin, "equities", JArray(<<>>))
           cryptos == Get(stdin, "cryptos", JArray(<<>>))
       IN  IF ~Iterable(equities)
           THEN /\ locals' = [equities |-> equities, cryptos |-> cryptos, i |-> 1,
                              results |-> <<>>]
                /\ ExitOnException(<<>>)
           ELSE EquityLoop(equities, cryptos, 1, <<>>, <<>>)
    /\ UNCHANGED <<stdin, env, calls>>

\* results.insert(0, price_data) if price_data
PrependIfTruthy(results, price_data) ==
    IF Truthy(price_data) THEN <<price_data>> \o results ELSE results

\* results.append(price_data) if price_data
AppendIfTruthy(results, price_data) ==
    IF Truthy(price_data) THEN Append(results, price_data) ELSE results

\* Lines 286-289: one equity.
BatchEquity ==
    /\ pc = "batch_equities"
    /\ \E resp \in EquityResponses :
          LET symbol == Items(locals.equities)[locals.i]
              price_data == FetchEquityPrice(symbol, resp)
          IN  /\ calls' = Append(calls, [api |-> "yfinance.history", symbol |-> symbol,
                                         period |-> "1d", interval |-> "1d", resp |-> resp])
              /\ EquityLoop(locals.equities, locals.cryptos, locals.i + 1,
                            AppendIfTruthy(locals.results, price_data),
                            IF Truthy(price_data) THEN <<>>
                            ELSE <<FString("Error fetching ", symbol)>>)
    /\ UNCHANGED <<stdin, env>>

\* Lines 292-295: one crypto.
BatchCrypto ==
    /\ pc = "batch_cryptos"
    /\ \E resp \in CryptoResponses(Items(locals.cryptos)[locals.i]) :
          LET crypto_id == Items(locals.cryptos)[locals.i]
              price_data == FetchCryptoPrice(crypto_id, ReverseCryptoMap, resp)
          IN  /\ calls' = Append(calls, [api |-> "coingecko.simple_price", ids |-> crypto_id,
                                         resp |-> resp])
              /\ CryptoLoop(locals.equities, locals.cryptos, locals.i + 1,
                            AppendIfTruthy(locals.results, price_data),
                            IF Truthy(price_data) THEN <<>>
                            ELSE <<FString("Error fetching ", crypto_id)>>)
    /\ UNCHANGED <<stdin, env>>

Next ==
    \/ MainParseFails
    \/ MainSearch
    \/ MainPriceSummary
    \/ SummaryHist1d
    \/ SummaryHist7d
    \/ SummaryInfo
    \/ MainIntraday
    \/ IntradayPolygon
    \/ IntradayMinute
    \/ IntradayDaily
    \/ MainBatch
    \/ BatchEquity
    \/ BatchCrypto

Spec == Init /\ [][Next]_vars

---------------------------------------------------------------------------
(* Vocabulary of the properties *)

Done == pc = "exit"

\* the request is a JSON object dispatched to the named mode
InMode(mode) ==
    /\ stdin.parse = "object"
    /\ IF mode = "batch"
       THEN RequestType \notin {"search", "price_summary", "intraday"}
       ELSE RequestType = mode

\* the process ended normally, having printed the document Output
Printed == Done /\ exitStatus = 0 /\ Len(stdout) = 1
Output == stdout[1]

IsErrorDocument(doc) == doc.json = "object" /\ "error" \in DOMAIN doc.fields
IsResultDocument(doc) == doc.json = "object" /\ "error" \notin DOMAIN doc.fields

\* the `symbol` of a single-symbol request, None when absent
RequestSymbol == Get(stdin, "symbol", NoneStr)

\* the provider calls made so far to one API, in order
CallsTo(api) == SelectSeq(calls, LAMBDA c : c.api = api)

EmptyFrame(resp) == resp.tag = "frame" /\ Len(resp.rows) = 0

\* the calls of the intraday fallback stage, by the interval requested
IsMinuteCall(c) == c.api = "yfinance.history" /\ c.interval = "1m"
IsDailyCall(c) == c.api = "yfinance.history" /\ c.interval = "1d"

---------------------------------------------------------------------------
(* C1 *)

\* C1: for an intraday request, whenever the secondary provider was asked for
\* one-minute bars and then for the one-day period and returned an empty
\* series both times, the process output is the error object
\* {"error": "Failed to fetch intraday data for <symbol>"}.
C1_BothStagesEmptyGivesError ==
    (/\ Done
     /\ InMode("intraday")
     /\ Len(calls) >= 2
     /\ IsMinuteCall(calls[Len(calls) - 1]) /\ EmptyFrame(calls[Len(calls) - 1].resp)
     /\ IsDailyCall(calls[Len(calls)]) /\ EmptyFrame(calls[Len(calls)].resp))
    => stdout = <<ErrorDocument(
                     FString("Failed to fetch intraday data for ", RequestSymbol))>>

---------------------------------------------------------------------------
(* C2 *)

\* the ticker the Symbol Mapper assigns to a provider identifier, or the
\* synthesized "<ID>-USD"
TickerOf(id) ==
    LET hits == {i \in 1..Len(CryptoSymbolMap) : CryptoSymbolMap[i][2] = id}
    IN  IF hits = {} THEN Upper(id) \o DashUSD
        ELSE CryptoSymbolMap[CHOOSE i \in hits : TRUE][1]

\* a coingecko call whose answer holds a USD price for the identifier asked
CryptoAnswered(c) ==
    /\ c.api = "coingecko.simple_price"
    /\ c.resp.tag = "json"
    /\ c.ids \in DOMAIN c.resp.data
    /\ "usd" \in DOMAIN c.resp.data[c.ids]

CryptoItems(doc) == SelectSeq(doc.items, LAMBDA item : item.fields.assetType = "crypto")

\* C2: in batch mode every successful crypto fetch emits the ticker the fixed
\* Symbol Mapper gives its identifier (bitcoin -> BTC-USD, ...), and
\* "<IDENTIFIER IN UPPER CASE>-USD" for an identifier without a mapping.
C2_CryptoTickerFromSymbolMapper ==
    (Printed /\ InMode("batch"))
    => LET emitted == CryptoItems(Output)
           answered == SelectSeq(calls, CryptoAnswered)
       IN  /\ Len(emitted) = Len(answered)
           /\ \A j \in 1..Len(emitted) :
                 emitted[j].fields.symbol = TickerOf(answered[j].ids)

---------------------------------------------------------------------------
(* C3 *)

\* C3 as stated: every input that parses as JSON gets exactly one document on
\* stdout and exit status 0; the status is non-zero, with nothing written,
\* only for input that is no JSON at all.
C3_EveryJsonInputAnswered ==
    Done => /\ stdin.parse # "invalid" => (Len(stdout) = 1 /\ exitStatus = 0)
            /\ exitStatus # 0 => (stdin.parse = "invalid" /\ stdout = <<>>)

\* the inputs on which an exception reaches main: text that is no JSON, a JSON
\* value that is no object, a batch request whose `equities` or `cryptos` is
\* present and cannot be iterated
RaisesInMain ==
    \/ stdin.parse # "object"
    \/ /\ InMode("batch")
       /\ \/ Get(stdin, "equities", JArray(<<>>)).json # "array"
          \/ Get(stdin, "cryptos", JArray(<<>>)).json # "array"

\* C3, amended: nothing is written before the process ends; it ends with
\* status 0 and exactly one JSON document on stdout for every request object
\* whatever the providers answer, and with status 1 and nothing on stdout
\* exactly on the inputs of RaisesInMain.
C3_HandledRequestsAnswered ==
    /\ ~Done => (stdout = <<>> /\ exitStatus = -1)
    /\ Done => IF RaisesInMain
               THEN exitStatus = 1 /\ stdout = <<>>
               ELSE /\ exitStatus = 0
                    /\ Len(stdout) = 1
                    /\ Output.json \in {"object", "array"}

\* a batch request with cryptos null: the equities were fetched, then the
\* process ended with status 1 and printed nothing
C3_Witness ==
    /\ Done
    /\ InMode("batch")
    /\ Get(stdin, "cryptos", JArray(<<>>)).json = "null"
    /\ Len(calls) > 0
    /\ exitStatus = 1
    /\ stdout = <<>>

---------------------------------------------------------------------------
(* C4, C5 *)

HasCredential == "POLYGON_API_KEY" \in DOMAIN env /\ env.POLYGON_API_KEY # <<>>

\* a polygon answer with status OK and a non-empty result list
AnsweredOK(resp) ==
    /\ resp.tag = "json"
    /\ "status" \in DOMAIN resp.data /\ resp.data.status = "OK"
    /\ "results" \in DOMAIN resp.data /\ Len(resp.data.results) > 0

\* the bars at these positions all have their six fields
WellFormed(results, positions) ==
    \A i \in positions \cap (1..Len(results)) : PolygonFields \subseteq DOMAIN results[i]

\* the secondary stage decided the outcome: the last call went to yfinance,
\* the output is the error object exactly when that call faulted or returned a
\* row that cannot be converted, and otherwise a result of source yfinance
\* with one candle per row
SecondaryDecides ==
    /\ Len(calls) >= 2
    /\ \A k \in 2..Len(calls) : calls[k].api = "yfinance.history"
    /\ Printed
    /\ LET last == calls[Len(calls)].resp
           failed == \/ last.tag # "frame"
                     \/ \E i \in 1..Len(last.rows) : last.rows[i].Volume.k = "nan"
       IN  IF failed THEN IsErrorDocument(Output)
           ELSE /\ IsResultDocument(Output)
                /\ Output.fields.source = "yfinance"
                /\ Len(Output.fields.candles) = Len(last.rows)

\* the primary stage decided the outcome: no other call was made and the
\* output is a result of source polygon
PrimaryDecides ==
    /\ Len(calls) = 1
    /\ Printed
    /\ IsResultDocument(Output)
    /\ Output.fields.source = "polygon"

\* with a credential the first call goes to polygon, which is called once
PrimaryFirstAndOnce ==
    /\ Len(CallsTo("polygon.aggs")) <= 1
    /\ calls # <<>> => calls[1].api = "polygon.aggs"
    /\ Done => Len(CallsTo("polygon.aggs")) = 1

\* C4 as stated: with a credential the primary is called first and once; an
\* answer with status OK and a non-empty list of well-formed bars ends the
\* request with the primary's result, and every other answer (error, empty,
\* non-OK status, a malformed bar anywhere in the list) leads to the
\* secondary, which alone decides the outcome.
C4_AnyMalformedBarFallsBack ==
    (InMode("intraday") /\ HasCredential)
    => /\ PrimaryFirstAndOnce
       /\ Done => LET resp == calls[1].resp
                  IN  IF AnsweredOK(resp)
                         /\ WellFormed(resp.data.results, 1..Len(resp.data.results))
                      THEN PrimaryDecides
                      ELSE SecondaryDecides

\* C4, amended: as above, where the malformed bar that leads to the secondary
\* is one among the last 100 bars of the list; bars before the last 100 are
\* never read.
C4_PrimaryFirstSecondaryDecides ==
    (InMode("intraday") /\ HasCredential)
    => /\ PrimaryFirstAndOnce
       /\ Done => LET resp == calls[1].resp
                  IN  IF AnsweredOK(resp)
                         /\ LET n == Len(resp.data.results)
                            IN  WellFormed(resp.data.results, (n - MaxCandles + 1)..n)
                      THEN PrimaryDecides
                      ELSE SecondaryDecides

\* the primary failed with an HTTP error and the secondary supplied the result
C4_Witness ==
    /\ Done
    /\ InMode("intraday") /\ HasCredential
    /\ calls[1].resp.tag = "http_error"
    /\ IsResultDocument(Output)
    /\ Output.fields.source = "yfinance"
    /\ Len(Output.fields.candles) > 0

\* C5: without a credential (POLYGON_API_KEY unset or empty) an intraday
\* request never calls the primary provider and never emits a result whose
\* source is "polygon".
C5_NoCredentialNoPrimary ==
    (InMode("intraday") /\ ~HasCredential)
    => /\ CallsTo("polygon.aggs") = <<>>
       /\ (Printed /\ IsResultDocument(Output)) => Output.fields.source # "polygon"

\* no credential, and the secondary supplied an IntradayResult
C5_Witness ==
    /\ Printed
    /\ InMode("intraday")
    /\ "POLYGON_API_KEY" \notin DOMAIN env
    /\ IsResultDocument(Output)
    /\ Output.fields.source = "yfinance"
    /\ Len(Output.fields.candles) > 0

---------------------------------------------------------------------------
(* C6, C7 *)

\* the number of bars a provider call returned
BarsReturned(c) ==
    IF c.api = "polygon.aggs"
    THEN IF c.resp.tag = "json" /\ "results" \in DOMAIN c.resp.data
         THEN Len(c.resp.data.results) ELSE 0
    ELSE IF c.resp.tag = "frame" THEN Len(c.resp.rows) ELSE 0

\* the source name of the provider a call went to
SourceName(c) == IF c.api = "polygon.aggs" THEN "polygon" ELSE "yfinance"

Min(a, b) == IF a <= b THEN a ELSE b

\* the candles are the last min(n, 100) bars of the polygon list, in its order
LastBarsOf(candles, results) ==
    LET n == Len(results)
        m == Min(n, MaxCandles)
    IN  /\ Len(candles) = m
        /\ \A j \in 1..m :
              LET bar == results[n - m + j]
              IN  candles[j] = [ts |-> bar.t, open |-> bar.o, high |-> bar.h,
                                low |-> bar.l, close |-> bar.c, volume |-> bar.v]

\* the candles are the rows of the yfinance frame, one each, in its order
RowsOf(candles, rows) ==
    /\ Len(candles) = Len(rows)
    /\ \A j \in 1..Len(rows) :
          /\ NumEq(candles[j].close, rows[j].Close)
          /\ NumEq(candles[j].open, rows[j].Open)
          /\ candles[j].ts.n = (rows[j].index.n * 1000) \div rows[j].index.d

\* C6 as stated: the output of an intraday request is the error object only
\* if no provider call returned any bar; whenever some call returned at least
\* one bar the output is an IntradayResult taken from such a call, with that
\* call's provider as source.
C6_ErrorOnlyWithoutAnyBar ==
    (Done /\ InMode("intraday"))
    => /\ Printed
       /\ IsErrorDocument(Output) => \A k \in 1..Len(calls) : BarsReturned(calls[k]) = 0
       /\ (\E k \in 1..Len(calls) : BarsReturned(calls[k]) > 0)
          => /\ IsResultDocument(Output)
             /\ \E k \in 1..Len(calls) :
                   /\ BarsReturned(calls[k]) > 0
                   /\ Output.fields.source = SourceName(calls[k])
                   /\ Len(Output.fields.candles) = Min(BarsReturned(calls[k]), MaxCandles)

\* the primary was called and answered status OK with a non-empty list whose
\* last 100 bars are well-formed
PrimarySucceeded ==
    /\ calls # <<>>
    /\ calls[1].api = "polygon.aggs"
    /\ AnsweredOK(calls[1].resp)
    /\ LET n == Len(calls[1].resp.data.results)
       IN  WellFormed(calls[1].resp.data.results, (n - MaxCandles + 1)..n)

\* the last call went to yfinance and faulted or returned an inconvertible row
SecondaryFailed ==
    /\ calls # <<>>
    /\ calls[Len(calls)].api = "yfinance.history"
    /\ LET last == calls[Len(calls)].resp
       IN  \/ last.tag # "frame"
           \/ \E i \in 1..Len(last.rows) : last.rows[i].Volume.k = "nan"

\* C6, amended: the output is the error object only if the secondary stage
\* failed (its last call faulted or returned a bar that cannot be converted)
\* after the primary, if tried, did not succeed; when the primary succeeds the
\* output is a result of source polygon holding its last (at most 100) bars;
\* otherwise, when the last secondary call returned at least one bar, all
\* convertible, the output is a result of source yfinance holding those bars.
C6_ErrorOnlyWhenSecondaryFails ==
    (Done /\ InMode("intraday"))
    => /\ Printed
       /\ IsErrorDocument(Output) => (SecondaryFailed /\ ~PrimarySucceeded)
       /\ PrimarySucceeded
          => /\ IsResultDocument(Output)
             /\ Output.fields.source = "polygon"
             /\ LastBarsOf(Output.fields.candles, calls[1].resp.data.results)
       /\ (~PrimarySucceeded /\ ~SecondaryFailed /\ BarsReturned(calls[Len(calls)]) > 0)
          => /\ IsResultDocument(Output)
             /\ Output.fields.source = "yfinance"
             /\ RowsOf(Output.fields.candles, calls[Len(calls)].resp.rows)

\* the primary returned bars under a status other than OK, the one-minute
\* fetch was empty and the daily fetch supplied the result
C6_Witness ==
    /\ Printed
    /\ InMode("intraday")
    /\ Len(calls) = 3
    /\ BarsReturned(calls[1]) > 0
    /\ IsResultDocument(Output)
    /\ Output.fields.source = "yfinance"
    /\ Len(Output.fields.candles) > 0

\* C7: in every emitted IntradayResult the candles are in non-decreasing order
\* of ts (the providers return their series in ascending order), and a result
\* of the primary path holds exactly the last min(n, 100) of the n bars the
\* primary supplied, in the provider's order, so never more than 100.
C7_OrderedAndLast100 ==
    (Printed /\ InMode("intraday") /\ IsResultDocument(Output))
    => LET candles == Output.fields.candles
       IN  /\ \A j \in 1..(Len(candles) - 1) : NumLeq(candles[j].ts, candles[j + 1].ts)
           /\ Output.fields.source = "polygon"
              => /\ Len(candles) <= 100
                 /\ LastBarsOf(candles, calls[1].resp.data.results)

\* the primary supplied more than 100 bars and the result holds 100
C7_Witness ==
    /\ Printed
    /\ InMode("intraday")
    /\ IsResultDocument(Output)
    /\ Output.fields.source = "polygon"
    /\ Len(calls[1].resp.data.results) > 100
    /\ Len(Output.fields.candles) = 100

---------------------------------------------------------------------------
(* C8, C9 *)

\* the lists of a batch request, [] when absent
RequestEquities == Items(Get(stdin, "equities", JArray(<<>>)))
RequestCryptos == Items(Get(stdin, "cryptos", JArray(<<>>)))

Range(seq) == {seq[i] : i \in 1..Len(seq)}

\* an equity call whose history has at least one row
EquityAnswered(c) ==
    c.api = "yfinance.history" /\ c.resp.tag = "frame" /\ Len(c.resp.rows) > 0

\* a lookup that succeeded
Answered(c) == EquityAnswered(c) \/ CryptoAnswered(c)

\* the symbol is a ticker made from the provider identifier: its counterpart
\* in the Symbol Mapper (in either direction) or the identifier in upper case
\* followed by -USD
DerivedFrom(id, symbol) ==
    \/ symbol = Upper(id) \o DashUSD
    \/ \E i \in 1..Len(CryptoSymbolMap) :
          \/ CryptoSymbolMap[i][2] = id /\ CryptoSymbolMap[i][1] = symbol
          \/ CryptoSymbolMap[i][1] = id /\ CryptoSymbolMap[i][2] = symbol

\* the item is the PricePoint of the answered lookup
PricePointOf(item, c) ==
    IF c.api = "yfinance.history"
    THEN /\ item.fields.assetType = "equity"
         /\ item.fields.symbol = c.symbol
         /\ NumEq(item.fields.close, c.resp.rows[Len(c.resp.rows)].Close)
    ELSE /\ item.fields.assetType = "crypto"
         /\ DerivedFrom(c.ids, item.fields.symbol)
         /\ NumEq(item.fields.close, c.resp.data[c.ids].usd)

\* C8: a batch request over two lists looks up every equity, in list order,
\* then every crypto, in list order, whatever the earlier lookups gave; its
\* output is exactly the answered lookups in that order, a failed lookup
\* leaving no item, so it is no longer than len(equities) + len(cryptos).
C8_BatchOutputIsAnsweredLookupsInOrder ==
    (Done /\ InMode("batch") /\ ~RaisesInMain)
    => /\ Printed
       /\ Output.json = "array"
       /\ Len(calls) = Len(RequestEquities) + Len(RequestCryptos)
       /\ \A k \in 1..Len(RequestEquities) :
             calls[k].api = "yfinance.history" /\ calls[k].symbol = RequestEquities[k]
       /\ \A k \in 1..Len(RequestCryptos) :
             LET c == calls[Len(RequestEquities) + k]
             IN  c.api = "coingecko.simple_price" /\ c.ids = RequestCryptos[k]
       /\ LET answered == SelectSeq(calls, Answered)
          IN  /\ Len(Output.items) = Len(answered)
              /\ \A j \in 1..Len(answered) : PricePointOf(Output.items[j], answered[j])
       /\ Len(Output.items) <= Len(RequestEquities) + Len(RequestCryptos)

\* three instruments: the first lookup failed, the two after it were emitted,
\* the equity before the crypto
C8_Witness ==
    /\ Printed
    /\ InMode("batch")
    /\ Len(calls) = 3
    /\ ~Answered(calls[1])
    /\ Len(Output.items) = 2
    /\ Output.items[1].fields.assetType = "equity"
    /\ Output.items[2].fields.assetType = "crypto"

\* C9 as stated: every emitted item's symbol equals an entry of the request's
\* `equities` list or of its `cryptos` list.
C9_SymbolsDrawnFromInputLists ==
    (Printed /\ InMode("batch"))
    => \A j \in 1..Len(Output.items) :
          Output.items[j].fields.symbol \in Range(RequestEquities) \cup Range(RequestCryptos)

\* C9, amended: every emitted equity item's symbol equals an entry of
\* `equities`; a crypto item's symbol is not drawn from `cryptos` but is a
\* ticker derived from one of its entries.
C9_SymbolsComeFromInputLists ==
    (Printed /\ InMode("batch"))
    => \A j \in 1..Len(Output.items) :
          LET item == Output.items[j].fields
          IN  IF item.assetType = "equity"
              THEN item.symbol \in Range(RequestEquities)
              ELSE \E id \in Range(RequestCryptos) : DerivedFrom(id, item.symbol)

\* an equity written in lower case and a crypto were both emitted
C9_Witness ==
    /\ Printed
    /\ InMode("batch")
    /\ Len(Output.items) = 2
    /\ Output.items[1].fields.assetType = "equity"
    /\ Output.items[1].fields.symbol = Lower(MSFT)
    /\ Output.items[2].fields.assetType = "crypto"
    /\ Output.items[2].fields.symbol \notin Range(RequestCryptos)

---------------------------------------------------------------------------
(* C10 *)

\* the rows of the 7-day history of a printed PriceSummary
SevenDayRows == calls[2].resp.rows

\* the second-to-last close of the 7-day history
SecondToLastClose == SevenDayRows[Len(SevenDayRows) - 1].Close

\* pct = change / prev * 100 as numbers, for prev # 0
IsPercentOf(pct, change, prev) ==
    /\ pct.k # "nan"
    /\ pct.n * change.d * prev.n = 100 * change.n * prev.d * pct.d

SummaryPrinted == Printed /\ InMode("price_summary") /\ IsResultDocument(Output)

\* C10 as stated: with at least two points in the 7-day history,
\* changePercent24h = change24h / secondToLastClose * 100 for every
\* secondToLastClose the provider can return (every one by which one can
\* divide); with one point changePercent24h is exactly 0.
C10_PercentForEveryPreviousClose ==
    SummaryPrinted
    => /\ (Len(SevenDayRows) >= 2 /\ SecondToLastClose.n # 0)
          => IsPercentOf(Output.fields.changePercent24h, Output.fields.change24h,
                         SecondToLastClose)
       /\ Len(SevenDayRows) = 1 => Output.fields.changePercent24h = Int_(0)

\* C10, amended: with at least two points, changePercent24h =
\* change24h / secondToLastClose * 100 when secondToLastClose > 0 and exactly
\* 0 when secondToLastClose is zero or negative; with one point it is
\* exactly 0.
C10_PercentForPositivePreviousClose ==
    SummaryPrinted
    => /\ (Len(SevenDayRows) >= 2 /\ SecondToLastClose.n > 0)
          => IsPercentOf(Output.fields.changePercent24h, Output.fields.change24h,
                         SecondToLastClose)
       /\ (Len(SevenDayRows) >= 2 /\ SecondToLastClose.n <= 0)
          => Output.fields.changePercent24h = Int_(0)
       /\ Len(SevenDayRows) = 1 => Output.fields.changePercent24h = Int_(0)

\* a summary whose previous close is 3 and whose price is 1: -200/3 percent
C10_Witness ==
    /\ SummaryPrinted
    /\ Len(SevenDayRows) >= 2
    /\ SecondToLastClose = Float_(3)
    /\ Output.fields.price = Float_(1)
    /\ Output.fields.changePercent24h = [k |-> "float", n |-> -200, d |-> 3]

---------------------------------------------------------------------------
(* C11 *)

\* the rows of the one-day history of a printed PriceSummary
OneDayRows == calls[1].resp.rows

\* x = a - b as numbers
IsDifference(x, a, b) ==
    /\ x.k # "nan"
    /\ x.n * a.d * b.d = (a.n * b.d - b.n * a.d) * x.d

\* C11 as stated: with at least two points in the 7-day history, change24h is
\* the last close of the 7-day history minus its second-to-last close,
\* whatever the one-day history request returned; with fewer than two points
\* change24h is 0.
C11_ChangeFromSevenDaySeriesAlone ==
    SummaryPrinted
    => /\ Len(SevenDayRows) >= 2
          => IsDifference(Output.fields.change24h,
                          SevenDayRows[Len(SevenDayRows)].Close, SecondToLastClose)
       /\ Len(SevenDayRows) < 2 => Output.fields.change24h.n = 0

\* C11, amended: with at least two points in the 7-day history, change24h is
\* the summary's price, which is the last close of the one-day history, minus
\* the second-to-last close of the 7-day history; with fewer than two points
\* change24h is 0.
C11_ChangeFromPriceAndSevenDaySeries ==
    SummaryPrinted
    => /\ NumEq(Output.fields.price, OneDayRows[Len(OneDayRows)].Close)
       /\ Len(SevenDayRows) >= 2
          => IsDifference(Output.fields.change24h, Output.fields.price, SecondToLastClose)
       /\ Len(SevenDayRows) < 2 => Output.fields.change24h.n = 0

\* the one-day history closed at 1 while the 7-day history closed at 3 and 3:
\* change24h is -2, not 0
C11_Witness ==
    /\ SummaryPrinted
    /\ Len(SevenDayRows) = 2
    /\ SevenDayRows[1].Close = Float_(3) /\ SevenDayRows[2].Close = Float_(3)
    /\ OneDayRows[Len(OneDayRows)].Close = Float_(1)
    /\ Output.fields.change24h = Float_(-2)

---------------------------------------------------------------------------
(* C12 *)

\* a price-summary request that names a symbol
SummaryRequested ==
    /\ InMode("price_summary")
    /\ "symbol" \in DOMAIN stdin /\ stdin.symbol # <<>>

\* the calls asking yfinance for a history of the given period
HistoryCalls(period) ==
    SelectSeq(calls, LAMBDA c : c.api = "yfinance.history" /\ c.period = period)

SummaryFailure ==
    ErrorDocument(FString("Failed to fetch price summary for ", RequestSymbol))

\* C12: a price-summary request whose one-day history or seven-day history is
\* empty ends with the error object {"error": "Failed to fetch price summary
\* for <symbol>"} and never with a PriceSummary; after an empty one-day
\* history the seven-day history is not requested.
C12_EmptyHistoryGivesError ==
    SummaryRequested
    => /\ (calls # <<>> /\ EmptyFrame(calls[1].resp))
          => /\ calls[1].period = "1d"
             /\ HistoryCalls("7d") = <<>>
             /\ Len(calls) = 1
             /\ Done /\ exitStatus = 0
             /\ stdout = <<SummaryFailure>>
       /\ (Len(calls) >= 2 /\ EmptyFrame(calls[2].resp))
          => /\ calls[2].period = "7d"
             /\ Len(calls) = 2
             /\ Done /\ exitStatus = 0
             /\ stdout = <<SummaryFailure>>

\* the one-day history had a row, the seven-day history was empty, and the
\* error object was printed
C12_Witness ==
    /\ SummaryRequested
    /\ Done
    /\ Len(calls) = 2
    /\ ~EmptyFrame(calls[1].resp)
    /\ calls[2].period = "7d" /\ EmptyFrame(calls[2].resp)
    /\ stdout = <<SummaryFailure>>

---------------------------------------------------------------------------
(* C13 *)

\* the `query` and `limit` of a search request, with their defaults
RequestQuery == Get(stdin, "query", JString(<<>>))
RequestLimit == Get(stdin, "limit", JInt(10))

\* the catalog entries whose symbol or name contains the query, compared
\* without regard to case, in catalog order
AllMatches(q) ==
    SelectSeq(MockSecurities,
              LAMBDA sec : \/ Contains(Lower(sec.symbol), Lower(q))
                           \/ Contains(Lower(sec.name), Lower(q)))

\* seq is the first Len(seq) entries of all
IsPrefix(seq, all) ==
    /\ Len(seq) <= Len(all)
    /\ \A j \in 1..Len(seq) : seq[j] = all[j]

\* C13: for every search request with a text query and an integer limit
\* (10 when absent), the output has at most `limit` entries, and they are the
\* first matches, in catalog order, of the case-insensitive substring match of
\* the query against each entry's symbol and name.
C13_AtMostLimitFirstMatches ==
    (Printed /\ InMode("search")
     /\ RequestQuery.json = "string" /\ RequestLimit.json = "int")
    => /\ Output.json = "array"
       /\ Len(Output.items) <= RequestLimit.n
       /\ IsPrefix(Output.items, AllMatches(RequestQuery.s))
       /\ Len(Output.items) < RequestLimit.n
          => Len(Output.items) = Len(AllMatches(RequestQuery.s))

---------------------------------------------------------------------------
(* C14 *)

\* a search request for the query, with the limit given or left out
SearchFor(q) == InMode("search") /\ "query" \in DOMAIN stdin /\ stdin.query = JString(q)
LimitAbsent == "limit" \notin DOMAIN stdin
LimitIs(n) == "limit" \in DOMAIN stdin /\ stdin.limit = JInt(n)

\* the symbols of the printed entries, in order
OutputSymbols == [j \in 1..Len(Output.items) |-> Output.items[j].symbol]

\* C14 as stated: against the ten-entry catalog, query "AAPL" returns exactly
\* one entry, with symbol "AAPL"; query "ETF" returns an empty sequence; query
\* "S&P" with limit 1 returns exactly one entry.
C14_CatalogExamplesEtfEmpty ==
    Printed
    => /\ (SearchFor(AAPL) /\ LimitAbsent) => OutputSymbols = <<AAPL>>
       /\ (SearchFor(<<"E", "T", "F">>) /\ LimitAbsent) => Output.items = <<>>
       /\ (SearchFor(<<"S", "&", "P">>) /\ LimitIs(1)) => Len(Output.items) = 1

\* C14, amended: query "AAPL" returns exactly one entry, with symbol "AAPL";
\* query "ETF" returns the four entries whose name contains "ETF" (SPY, VTI,
\* IVV, VOO, in catalog order); query "S&P", which matches three entries,
\* returns with limit 1 exactly one entry, the first (SPY).
C14_CatalogExamples ==
    Printed
    => /\ (SearchFor(AAPL) /\ LimitAbsent) => OutputSymbols = <<AAPL>>
       /\ (SearchFor(<<"E", "T", "F">>) /\ LimitAbsent)
          => OutputSymbols = << <<"S", "P", "Y">>, <<"V", "T", "I">>,
                                <<"I", "V", "V">>, <<"V", "O", "O">> >>
       /\ (SearchFor(<<"S", "&", "P">>) /\ LimitAbsent)
          => OutputSymbols = << <<"S", "P", "Y">>, <<"I", "V", "V">>, <<"V", "O", "O">> >>
       /\ (SearchFor(<<"S", "&", "P">>) /\ LimitIs(1))
          => OutputSymbols = << <<"S", "P", "Y">> >>

\* the query "ETF" was answered with four entries
C14_Witness ==
    /\ Printed
    /\ SearchFor(<<"E", "T", "F">>) /\ LimitAbsent
    /\ Len(Output.items) = 4
    /\ Output.items[1].type = "etf"

---------------------------------------------------------------------------
(* C15 *)

\* the request is an object whose `type` is t; whose `type` is absent
TypeIs(t) == stdin.parse = "object" /\ "type" \in DOMAIN stdin /\ stdin.type = t
TypeAbsent == stdin.parse = "object" /\ "type" \notin DOMAIN stdin

\* the positions of the process inside each mode handler
SummaryPositions == {"summary_1d", "summary_7d", "summary_info"}
IntradayPositions == {"intraday_polygon", "intraday_1m", "intraday_1d"}
BatchPositions == {"batch_equities", "batch_cryptos"}

\* the provider APIs called so far
ApisCalled == {calls[k].api : k \in 1..Len(calls)}

\* C15: exactly one mode handler runs, selected by `type`. The process is
\* only ever inside the handler of the request's type ("search",
\* "price_summary", "intraday", or batch when `type` is absent), it calls only
\* that handler's providers (search none; price_summary the yfinance history
\* and info; intraday polygon and the yfinance history; batch the yfinance
\* history and coingecko), and what it prints is that handler's document.
C15_OneHandlerByType ==
    /\ TypeIs("search")
       => /\ pc \in {"main", "exit"}
          /\ calls = <<>>
          /\ Done => /\ Printed
                      /\ Output = JArray(SearchEquitySymbols(RequestQuery, RequestLimit))
    /\ TypeIs("price_summary")
       => /\ pc \in {"main", "exit"} \cup SummaryPositions
          /\ ApisCalled \subseteq {"yfinance.history", "yfinance.info"}
          /\ Done => /\ Printed
                      /\ Output.json = "object"
                      /\ IsResultDocument(Output) => "miniChart" \in DOMAIN Output.fields
    /\ TypeIs("intraday")
       => /\ pc \in {"main", "exit"} \cup IntradayPositions
          /\ ApisCalled \subseteq {"polygon.aggs", "yfinance.history"}
          /\ Done => /\ Printed
                      /\ Output.json = "object"
                      /\ IsResultDocument(Output) => "candles" \in DOMAIN Output.fields
    /\ TypeAbsent
       => /\ pc \in {"main", "exit"} \cup BatchPositions
          /\ ApisCalled \subseteq {"yfinance.history", "coingecko.simple_price"}
          /\ (Done /\ stdout # <<>>)
             => /\ Output.json = "array"
                /\ \A j \in 1..Len(Output.items) :
                      "assetType" \in DOMAIN Output.items[j].fields

\* each of the four handlers ran to its end on a request of its type: here the
\* intraday handler, having called polygon and then yfinance
C15_Witness ==
    /\ TypeIs("intraday")
    /\ Done
    /\ ApisCalled = {"polygon.aggs", "yfinance.history"}
    /\ IsResultDocument(Output)

---------------------------------------------------------------------------
(* C16 *)

\* C16: within one intraday request the primary provider is called at most
\* once and before any other call, the secondary provider at most twice: first
\* for one-minute bars, and a second time, for the one-day period, if and only
\* if the first call returned an empty series; a secondary call that faults is
\* never followed by another call.
C16_NoRetryBeyondTheChain ==
    TypeIs("intraday")
    => LET primary == CallsTo("polygon.aggs")
           secondary == CallsTo("yfinance.history")
       IN  /\ ApisCalled \subseteq {"polygon.aggs", "yfinance.history"}
           /\ Len(primary) <= 1
           /\ \A k \in 2..Len(calls) : calls[k].api # "polygon.aggs"
           /\ Len(secondary) <= 2
           /\ Len(secondary) >= 1 => secondary[1].interval = "1m"
           /\ Len(secondary) = 2
              => /\ secondary[1].resp.tag = "frame" /\ Len(secondary[1].resp.rows) = 0
                 /\ secondary[2].period = "1d" /\ secondary[2].interval = "1d"
           /\ (Done /\ Len(secondary) >= 1
                /\ secondary[1].resp.tag = "frame" /\ Len(secondary[1].resp.rows) = 0)
              => Len(secondary) = 2
           /\ \A k \in 1..Len(calls) :
                 (calls[k].api = "yfinance.history" /\ calls[k].resp.tag = "fault")
                 => (k = Len(calls) /\ Done)

\* the whole chain: polygon failed, the one-minute series was empty, and the
\* one-day request faulted, after which nothing more was called
C16_Witness ==
    /\ TypeIs("intraday")
    /\ Done
    /\ Len(calls) = 3
    /\ calls[1].api = "polygon.aggs"
    /\ calls[2].resp.tag = "frame" /\ Len(calls[2].resp.rows) = 0
    /\ calls[3].period = "1d" /\ calls[3].interval = "1d"
    /\ calls[3].resp.tag = "fault"
    /\ IsErrorDocument(Output)

---------------------------------------------------------------------------
(* C17 *)

\* truncation toward zero of the fraction n/d, d > 0
Trunc(n, d) == IF n >= 0 THEN n \div d ELSE -((-n) \div d)

\* the candle holds the values of the row: ts the row's time in whole epoch
\* milliseconds, volume the row's volume as a whole number
CandleOfRow(candle, row) ==
    /\ candle.ts.n = Trunc(row.index.n * 1000, row.index.d) /\ candle.ts.d = 1
    /\ NumEq(candle.open, row.Open)
    /\ NumEq(candle.high, row.High)
    /\ NumEq(candle.low, row.Low)
    /\ NumEq(candle.close, row.Close)
    /\ candle.volume.n = Trunc(row.Volume.n, row.Volume.d) /\ candle.volume.d = 1

\* the last call that did not fault
LastAnswer ==
    LET answered == SelectSeq(calls, LAMBDA c : c.resp.tag \in {"frame", "json"})
    IN  answered[Len(answered)]

\* C17: an IntradayResult of the fallback path holds exactly one candle per
\* bar of the secondary provider's last non-faulting call, in the provider's
\* order, however many bars that is (more than 100 included): it is never
\* truncated or re-ordered.
C17_FallbackNeverTruncated ==
    (Printed /\ TypeIs("intraday") /\ IsResultDocument(Output)
     /\ Output.fields.source = "yfinance")
    => /\ LastAnswer.api = "yfinance.history"
       /\ LastAnswer = calls[Len(calls)]
       /\ Len(Output.fields.candles) = Len(LastAnswer.resp.rows)
       /\ \A j \in 1..Len(LastAnswer.resp.rows) :
             CandleOfRow(Output.fields.candles[j], LastAnswer.resp.rows[j])

\* the secondary provider returned more than 100 bars and all were emitted
C17_Witness ==
    /\ Printed
    /\ TypeIs("intraday")
    /\ IsResultDocument(Output)
    /\ Output.fields.source = "yfinance"
    /\ Len(calls[Len(calls)].resp.rows) > MaxCandles
    /\ Len(Output.fields.candles) = Len(calls[Len(calls)].resp.rows)

---------------------------------------------------------------------------
(* C18 *)

\* the Python kind of a number as json.dumps writes it
IsFloatingPoint(x) == x.k \in {"float", "nan"}
IsInteger(x) == x.k = "int"

\* the canonical Candle shape
Canonical(candle) ==
    /\ IsInteger(candle.ts)
    /\ IsFloatingPoint(candle.open) /\ IsFloatingPoint(candle.high)
    /\ IsFloatingPoint(candle.low) /\ IsFloatingPoint(candle.close)
    /\ IsInteger(candle.volume)

\* C18: every candle of an IntradayResult, of the primary path as of the
\* fallback path, has floating-point open, high, low and close, an integer
\* volume and an integer ts, whatever numeric kind the provider supplied.
C18_CanonicalCandleShape ==
    (Printed /\ TypeIs("intraday") /\ IsResultDocument(Output))
    => \A j \in 1..Len(Output.fields.candles) : Canonical(Output.fields.candles[j])

---------------------------------------------------------------------------
(* C19 *)

\* the request has no `symbol`; has none or the empty one
SymbolAbsent == stdin.parse = "object" /\ "symbol" \notin DOMAIN stdin
SymbolAbsentOrEmpty == SymbolAbsent \/ stdin.symbol = <<>>

SymbolRequired == ErrorDocument(FString("Symbol required for price summary", <<>>))

\* C19: a price-summary request whose `symbol` is absent or empty calls no
\* provider and ends with status 0 and the error object {"error": "Symbol
\* required for price summary"}; an intraday request has no such guard: with
\* `symbol` absent it still calls the provider chain, with a null symbol.
C19_SymbolGuardOnlyForSummary ==
    /\ (TypeIs("price_summary") /\ SymbolAbsentOrEmpty)
       => /\ calls = <<>>
          /\ pc \in {"main", "exit"}
          /\ Done => (exitStatus = 0 /\ stdout = <<SymbolRequired>>)
    /\ (TypeIs("intraday") /\ SymbolAbsent)
       => /\ pc # "main" => pc \in IntradayPositions \cup {"exit"}
          /\ \A k \in 1..Len(calls) : calls[k].symbol = NoneStr
          /\ Done => /\ Len(calls) >= 1
                      /\ HasCredential => calls[1].api = "polygon.aggs"
                      /\ (calls[Len(calls)].api = "yfinance.history"
                          \/ Output.fields.source = "polygon")
                      /\ Printed
                      /\ Output # SymbolRequired

\* a price-summary request with an empty symbol was answered with the error
\* object, no provider having been called
C19_Witness ==
    /\ TypeIs("price_summary")
    /\ "symbol" \in DOMAIN stdin /\ stdin.symbol = <<>>
    /\ Done
    /\ calls = <<>>
    /\ stdout = <<SymbolRequired>>

---------------------------------------------------------------------------
(* C20 *)

\* the request has a `type` that is none of the three main knows
TypeUnknown ==
    /\ stdin.parse = "object"
    /\ "type" \in DOMAIN stdin
    /\ stdin.type \notin {"search", "price_summary", "intraday"}

\* `equities` and `cryptos` are each absent or a sequence
ListsAreSequences ==
    /\ "equities" \in DOMAIN stdin => stdin.equities.json = "array"
    /\ "cryptos" \in DOMAIN stdin => stdin.cryptos.json = "array"

\* the output of a batch request: the PricePoints of the answered lookups of
\* its equities and then its cryptos, the empty sequence when both are absent
BatchAnswer ==
    /\ Printed
    /\ Output.json = "array"
    /\ Len(calls) = Len(RequestEquities) + Len(RequestCryptos)
    /\ LET answered == SelectSeq(calls, Answered)
       IN  /\ Len(Output.items) = Len(answered)
           /\ \A j \in 1..Len(answered) : PricePointOf(Output.items[j], answered[j])
    /\ ("equities" \notin DOMAIN stdin /\ "cryptos" \notin DOMAIN stdin)
       => Output = JArray(<<>>)

====
